---- MODULE Spec2Model ----
(***************************************************************************)
(* Model of the tabular-file validator: src/src/data_loader.py (DataLoader) *)
(* and of the upload endpoint src/src/main.py (upload_file, remove_file).   *)
(*                                                                          *)
(* A file is described by what the code looks at: whether the path exists,  *)
(* its size in bytes, its extension, the byte class that decides which      *)
(* codecs decode it, and its table (blank lines before the header, the raw  *)
(* header tokens, the data rows).  A column name is a base string plus the  *)
(* sequence of ".<digits>" suffixes it ends in, so "a.1" is                  *)
(* [base |-> "a", sfx |-> <<1>>]; the regular expression '.*\.\d+$' matches  *)
(* exactly the names whose sfx is not empty.                                *)
(***************************************************************************)
EXTENDS Integers, Sequences, FiniteSets, TLC

\* ------------------------------------------------------------------ bounds
MaxCols == 3
MaxRows == 2
MaxCalls == 2
\* size in bytes of the small files that hold a table
TableSize == 64

\* --------------------------------------------------------------- constants
\* bytes per megabyte, data_loader.py line 61 (1024 * 1024)
MiB == 1024 * 1024

\* DataLoader.__init__(file_path, max_size_mb = 50)
DefaultMaxSizeMb == 50

\* ------------------------------------------------------------------- names
Name(b) == [base |-> b, sfx |-> <<>>]

\* f"{old_col}.{cur_count}"
Suffixed(n, k) == [base |-> n.base, sfx |-> Append(n.sfx, k)]

\* columns.str.match(r'.*\.\d+$')
MatchesSuffixPattern(n) == Len(n.sfx) > 0

EmptyName == Name("")

\* pandas names a column whose header token is empty by its 0-based position
UnnamedText == <<"Unnamed: 0", "Unnamed: 1", "Unnamed: 2", "Unnamed: 3",
                 "Unnamed: 4", "Unnamed: 5">>

\* i is the 0-based position of the column
Unnamed(i) == Name(UnnamedText[i + 1])

\* the header tokens of the files: two plain names, a name that ends in
\* ".<digits>", the empty token, and the literal name "Unnamed: 1", which is
\* also the name pandas gives an empty token in the second column
RawNames == {Name("a"), Name("b"), Suffixed(Name("a"), 1), EmptyName, Unnamed(1)}

SeqsUpTo(S, n) == UNION {[1..k -> S] : k \in 0..n}

Range(s) == {s[i] : i \in DOMAIN s}

HasDuplicates(s) == Len(s) # Cardinality(Range(s))

\* ------------------------------------------------- pandas header mangling
\* pd.read_csv and pd.read_excel make repeated header names distinct as
\* pandas 2 does: the k-th repetition of name n becomes "n.k", with k raised
\* past any name the header already holds.
\* counts.get(col, 0)
CountOf(counts, n) == IF n \in DOMAIN counts THEN counts[n] ELSE 0

\* counts[col] = v
SetCount(counts, n, v) ==
  [m \in (DOMAIN counts) \cup {n} |-> IF m = n THEN v ELSE counts[m]]

\* while cur_count > 0: counts[old_col] = cur_count + 1
\*                      col = f"{old_col}.{cur_count}"
\*                      if col in this_header: cur_count += 1
\*                      else: cur_count = counts.get(col, 0)
RECURSIVE MangleLoop(_, _, _, _, _)
MangleLoop(old_col, col, cur, counts, hdr) ==
  IF cur = 0
    THEN [col |-> col, cur |-> cur, counts |-> counts]
    ELSE LET counts1 == SetCount(counts, old_col, cur + 1)
             col1 == Suffixed(old_col, cur)
         IN IF col1 \in Range(hdr)
              THEN MangleLoop(old_col, col1, cur + 1, counts1, hdr)
              ELSE MangleLoop(old_col, col1, CountOf(counts1, col1), counts1, hdr)

\* for i in col_loop_order: ... this_header[i] = col; counts[col] = cur_count + 1
RECURSIVE MangleAll(_, _, _)
MangleAll(order, hdr, counts) ==
  IF order = <<>>
    THEN hdr
    ELSE LET i == Head(order)
             m == MangleLoop(hdr[i], hdr[i], CountOf(counts, hdr[i]), counts, hdr)
         IN MangleAll(Tail(order),
                      [hdr EXCEPT ![i] = m.col],
                      SetCount(m.counts, m.col, m.cur + 1))

\* col_loop_order: the positions of raw from i on, in order, whose token is
\* empty (unnamed = TRUE) or is a name (unnamed = FALSE)
RECURSIVE Positions(_, _, _)
Positions(raw, i, unnamed) ==
  IF i > Len(raw)
    THEN <<>>
    ELSE IF (raw[i] = EmptyName) = unnamed
           THEN <<i>> \o Positions(raw, i + 1, unnamed)
           ELSE Positions(raw, i + 1, unnamed)

\* The column names pandas gives a header row: an empty token becomes
\* "Unnamed: <position>", then repeated names are made distinct, the named
\* columns first and the unnamed ones last, so an unnamed column whose
\* position name is already a given name is the one that gets the suffix.
DedupNames(raw) ==
  LET this_header == [i \in DOMAIN raw |->
                        IF raw[i] = EmptyName THEN Unnamed(i - 1) ELSE raw[i]]
      col_loop_order == Positions(raw, 1, FALSE) \o Positions(raw, 1, TRUE)
  IN MangleAll(col_loop_order, this_header, <<>>)

\* ------------------------------------------------------------------- files
\* A data row is one of two shapes; CellOf gives the cell of column j: a
\* number, a text, or a missing cell.
RowShapes == {"mix", "gaps"}

CellOf(shape, j) ==
  CASE shape = "mix"  -> IF j % 2 = 1 THEN "int" ELSE "str"
    [] shape = "gaps" -> IF j = 1 THEN "str" ELSE "nan"

\* The bytes of a file are ASCII except for at most one byte, whose kind and
\* position decide what each codec does:
\*   "high"            0xE9: starts a UTF-8 sequence, defined in cp1252
\*   "c1"              0x81: cannot start a UTF-8 sequence, undefined in cp1252
\*   "trail_surrogate" 0xDF at an odd offset: starts a UTF-8 sequence, defined
\*                     in cp1252, high byte of a UTF-16 trail surrogate
\*   "lead_surrogate"  0xD8 at an odd offset: the same, high byte of a UTF-16
\*                     lead surrogate
\* No file starts with a byte order mark.
ByteClasses == {"ascii", "high", "c1", "trail_surrogate", "lead_surrogate"}

\* the kinds that are the first byte of a UTF-8 sequence of several bytes
Utf8LeadBytes == {"high", "trail_surrogate", "lead_surrogate"}

\* the kinds that cp1252 does not define
UndefinedInCp1252 == {"c1"}

\* the kinds that are half of a surrogate code unit in little-endian UTF-16
Surrogates == {"trail_surrogate", "lead_surrogate"}

\* io.TextIOWrapper decodes a text file in reads of 8192 bytes; the reader of
\* line 85 takes its first line from the first of them
FirstRead == 8 * 1024

\* where the byte stands: "cell" in a text cell within the first FirstRead
\* bytes, an ASCII byte after it; "end" the last byte of a file of at most
\* FirstRead bytes; "late" in a text cell after the first FirstRead bytes and
\* within the first read of pd.read_csv (256 KiB), an ASCII byte after it;
\* "none" in an ASCII file
BytePositions == {"cell", "end", "late"}

Sizes == {0, 1, TableSize, DefaultMaxSizeMb * MiB, DefaultMaxSizeMb * MiB + 1}

\* size of the table files that are longer than one read of the text layer
LateSize == FirstRead + TableSize

LargeSizes == {DefaultMaxSizeMb * MiB, DefaultMaxSizeMb * MiB + 1}

\* sizes that are 1.125, 1.375 and 1.625 KB: the third decimal is exactly 5
TieSizes == {1024 + 128, 1024 + 384, 1024 + 640}

Limits == {0, DefaultMaxSizeMb}

Exts == {"csv", "xlsx", "txt"}

MkFile(ex, sz, ext, bytes, blank, header, rows, ragged, corrupt) ==
  [exists |-> ex, size |-> sz, ext |-> ext, bytes |-> bytes,
   at |-> IF bytes = "ascii" THEN "none" ELSE "cell", blank |-> blank,
   header |-> header, rows |-> rows, ragged |-> ragged, corrupt |-> corrupt]

\* file f with its byte that is not ASCII at position pos
Placed(f, pos) ==
  [f EXCEPT !.at = pos, !.size = IF pos = "late" THEN LateSize ELSE f.size]

HasStrCell(header, rows) ==
  \E i \in DOMAIN rows : \E j \in DOMAIN header : CellOf(rows[i], j) = "str"

Headers == SeqsUpTo(RawNames, MaxCols) \ {<<>>}

Bodies == SeqsUpTo(RowShapes, MaxRows)

\* no file at the path
MissingFile == MkFile(FALSE, 0, "csv", "ascii", 0, <<>>, <<>>, FALSE, FALSE)

\* zero-byte files
EmptyFiles == {MkFile(TRUE, 0, e, "ascii", 0, <<>>, <<>>, FALSE, FALSE) : e \in Exts}

\* CSV files that hold a header line and data rows, in ASCII, with well-formed
\* rows; a blank line may precede the header
CsvPlainFiles ==
  {MkFile(TRUE, TableSize, "csv", "ascii", k, h, r, FALSE, FALSE) :
     k \in 0..1, h \in Headers, r \in Bodies}

\* the headers of the CSV files below: plain names, repeated or not
OddHeaders ==
  {h \in Headers : Len(h) < MaxCols /\ Range(h) \subseteq {Name("a"), Name("b")}}

\* CSV files with a last row that has more fields than the row before it
CsvRaggedFiles ==
  {f \in {MkFile(TRUE, TableSize, "csv", b, 0, h, r, g, FALSE) :
            b \in ByteClasses, h \in OddHeaders, r \in Bodies, g \in BOOLEAN} :
     /\ f.ragged \/ f.bytes # "ascii"
     /\ f.ragged => Len(f.rows) >= 2
     /\ f.bytes # "ascii" => HasStrCell(f.header, f.rows)}

\* CSV files with a byte that is not ASCII in a text cell, at each position,
\* or with a last row that has more fields than the row before it, or both
CsvOddFiles ==
  {f \in CsvRaggedFiles : f.bytes = "ascii"}
  \cup {Placed(f, pos) : f \in {g \in CsvRaggedFiles : g.bytes # "ascii"},
                         pos \in BytePositions}

CsvTableFiles == CsvPlainFiles \cup CsvOddFiles

\* CSV files that hold nothing but line ends: no header line at all
CsvBlankFiles ==
  {MkFile(TRUE, sz, "csv", "ascii", 1, <<>>, <<>>, FALSE, FALSE) : sz \in Sizes \ {0}}

\* a one-byte CSV file: one name of one character
CsvTinyFiles ==
  {MkFile(TRUE, 1, "csv", "ascii", 0, <<n>>, <<>>, FALSE, FALSE) :
     n \in {Name("a"), Name("b")}}

\* files at and over the default limit and files of a few kilobytes, of each
\* extension
OtherFiles ==
  {MkFile(TRUE, sz, e, "ascii", 0, <<Name("a")>>, <<"mix">>, FALSE, FALSE) :
     sz \in LargeSizes \cup TieSizes, e \in Exts}

\* workbooks: the first sheet's header row and data rows
XlsxFiles ==
  {MkFile(TRUE, TableSize, "xlsx", "ascii", 0, h, r, FALSE, FALSE) :
     h \in Headers, r \in Bodies}

\* files named .xlsx that are no workbook
XlsxCorruptFiles ==
  {MkFile(TRUE, sz, "xlsx", "ascii", 0, <<Name("a")>>, <<>>, FALSE, TRUE) :
     sz \in Sizes \ {0}}

Files == {MissingFile} \cup EmptyFiles \cup CsvTableFiles \cup CsvBlankFiles
           \cup CsvTinyFiles \cup OtherFiles \cup XlsxFiles \cup XlsxCorruptFiles

Policies == {"check", "rename", "keep_first"}

\* ------------------------------------------------------------ loaded table
\* self.df = None
NoDf == [isNone |-> TRUE, columns |-> <<>>, rows |-> 0]

NoException == [kind |-> "none", cause |-> "none"]

Raise(kind) == [kind |-> kind, cause |-> "none"]

\* ValueError(f"Error reading CSV: {str(e)}"), ValueError(f"Error reading Excel: {str(e)}")
RaiseFrom(kind, cause) == [kind |-> kind, cause |-> cause]

\* The dtype and the values pandas gives a column.  read_csv reads a column
\* that holds any text as text throughout; read_excel keeps each cell's own
\* type.  A numeric column with a missing cell becomes floating point.
InferColumn(fmt, name, cells) ==
  LET present == {cells[i] : i \in DOMAIN cells} \ {"nan"}
  IN IF Len(cells) = 0
       THEN [name |-> name, dtype |-> "object", cells |-> cells]
     ELSE IF "str" \in present
       THEN [name |-> name, dtype |-> "object",
             cells |-> [i \in DOMAIN cells |->
                          IF cells[i] = "nan" THEN "nan"
                          ELSE IF fmt = "csv" THEN "str" ELSE cells[i]]]
     ELSE IF "nan" \in Range(cells)
       THEN [name |-> name, dtype |-> "float64",
             cells |-> [i \in DOMAIN cells |->
                          IF cells[i] = "nan" THEN "nan" ELSE "float"]]
     ELSE [name |-> name, dtype |-> "int64", cells |-> cells]

\* the DataFrame of a readable table: mangled header, typed columns
LoadTable(fmt, f) ==
  LET names == DedupNames(f.header)
  IN [isNone |-> FALSE,
      columns |-> [j \in DOMAIN f.header |->
                     InferColumn(fmt, names[j],
                                 [i \in DOMAIN f.rows |-> CellOf(f.rows[i], j)])],
      rows |-> Len(f.rows)]

\* self.df.loc[:, ~self.df.columns.str.match(r'.*\.\d+$')]
DropSuffixed(d) ==
  [d EXCEPT !.columns = SelectSeq(d.columns, LAMBDA c : ~MatchesSuffixPattern(c.name))]

ColumnNames(d) == [j \in DOMAIN d.columns |-> d.columns[j].name]

\* ------------------------------------------------------------- CSV reader
encodings == <<"utf-8", "latin1", "cp1252", "utf-16">>

\* UTF-16 without a byte order mark, on a read that decodes the bytes at the
\* positions seen: the codec decodes the bytes it is given as little-endian
\* code units and only then looks for the mark.  A file of no bytes decodes
\* to the empty text.  A file of one byte is a truncated code unit; a trail
\* surrogate, and a lead surrogate with a code unit after it, is an illegal
\* encoding (both UnicodeDecodeError).  A lead surrogate in the last code unit
\* waits for more input, and the missing mark raises UnicodeError, as it does
\* for every other file of two bytes or more.
DecodeUtf16(f, seen) ==
  IF f.size = 0 THEN "ok"
  ELSE IF f.size = 1 THEN "UnicodeDecodeError"
  ELSE IF /\ f.at \in seen
          /\ \/ f.bytes = "trail_surrogate"
             \/ f.bytes = "lead_surrogate" /\ f.at # "end"
    THEN "UnicodeDecodeError"
  ELSE "UnicodeError"

\* lines 83-87: open(path, encoding = enc) and the first next(reader), which
\* decodes the first FirstRead bytes and no more: "ok", or the exception
\* raised.  A path that does not exist cannot be opened.  A UTF-8 sequence
\* cut off by the end of the read is kept for the next read and raises nothing.
DecodeHeader(f, enc) ==
  CASE ~f.exists      -> "FileNotFoundError"
    [] enc = "utf-8"  -> IF \/ f.at = "cell"
                            \/ f.at = "end" /\ f.bytes \notin Utf8LeadBytes
                           THEN "UnicodeDecodeError" ELSE "ok"
    [] enc = "latin1" -> "ok"
    [] enc = "cp1252" -> IF f.bytes \in UndefinedInCp1252 /\ f.at \in {"cell", "end"}
                           THEN "UnicodeDecodeError" ELSE "ok"
    [] enc = "utf-16" -> DecodeUtf16(f, {"cell", "end"})

\* line 97: what decoding the whole file in codec enc does, as pd.read_csv
\* reads it: "ok", or the exception raised.  latin1 maps every byte.
Decode(f, enc) ==
  CASE ~f.exists      -> "FileNotFoundError"
    [] enc = "utf-8"  -> IF f.bytes = "ascii" THEN "ok" ELSE "UnicodeDecodeError"
    [] enc = "latin1" -> "ok"
    [] enc = "cp1252" -> IF f.bytes \in UndefinedInCp1252
                           THEN "UnicodeDecodeError" ELSE "ok"
    [] enc = "utf-16" -> DecodeUtf16(f, BytePositions)

\* the lines csv.reader sees: the blank lines, the header line, the data rows
CsvLineCount(f) == f.blank + (IF Len(f.header) > 0 THEN 1 ELSE 0) + Len(f.rows)

\* header = next(reader): a blank line is the empty list
FirstCsvRow(f) == IF f.blank > 0 THEN <<>> ELSE f.header

\* lines 82-93: the raw header check of policy 'check'; the exception it
\* raises, or "none"
HeaderCheck(f, enc) ==
  IF DecodeHeader(f, enc) # "ok" THEN DecodeHeader(f, enc)
  ELSE IF CsvLineCount(f) = 0 THEN "EmptyHeader"
  ELSE IF HasDuplicates(FirstCsvRow(f)) THEN "DuplicateColumnError"
  ELSE "none"

\* line 97: pd.read_csv(path, encoding = enc); the exception it raises, or
\* "none".  Blank lines are skipped, so the header is the first line that is
\* not blank.
PandasReadCsv(f, enc) ==
  IF Decode(f, enc) # "ok" THEN Decode(f, enc)
  ELSE IF Len(f.header) = 0 THEN "EmptyDataError"
  ELSE IF f.ragged THEN "ParserError"
  ELSE "none"

\* one pass of the try block, lines 79-105
TryEncoding(f, action, enc) ==
  LET h == IF action = "check" THEN HeaderCheck(f, enc) ELSE "none"
  IN IF h # "none" THEN h ELSE PandasReadCsv(f, enc)

\* the filter of line 103 applied under every policy
CsvTableFilterAlways(f, action) == DropSuffixed(LoadTable("csv", f))

\* line 97 and lines 99-103: the table a pass that raised nothing leaves in
\* self.df
CsvTable(f, action) ==
  IF action = "keep_first" THEN DropSuffixed(LoadTable("csv", f))
  ELSE LoadTable("csv", f)

\* lines 105-114: what the loop does after a pass under enc that ended with e:
\* return, go on to the next encoding, or raise
AfterPass(enc, e) ==
  CASE e = "none" -> "return"
    [] e = "UnicodeDecodeError" -> "continue"
    [] e = "DuplicateColumnError" -> "raise"
    [] OTHER -> IF enc = encodings[Len(encodings)] THEN "wrap" ELSE "continue"

\* the exception a pass that did not return and did not continue raises
PassException(e) ==
  IF e = "DuplicateColumnError" THEN Raise("DuplicateColumnError")
  ELSE RaiseFrom("CsvReadError", e)

\* lines 78-116: the loop over the encodings from position i on.  d is self.df
\* on entry; tried lists the encodings attempted so far.
RECURSIVE ReadCsvFrom(_, _, _, _, _)
ReadCsvFrom(i, f, action, d, tried) ==
  IF i > Len(encodings)
    THEN [df |-> d, exc |-> Raise("EncodingError"), tried |-> tried]
    ELSE LET enc == encodings[i]
             e == TryEncoding(f, action, enc)
             t == Append(tried, enc)
             next == AfterPass(enc, e)
         IN IF next = "return"
              THEN [df |-> CsvTable(f, action), exc |-> NoException, tried |-> t]
            ELSE IF next = "continue"
              THEN ReadCsvFrom(i + 1, f, action, d, t)
            ELSE [df |-> d, exc |-> PassException(e), tried |-> t]

ReadCsv(f, action, d) == ReadCsvFrom(1, f, action, d, <<>>)

\* ----------------------------------------------------- spreadsheet reader
\* lines 118-138
ReadExcel(f, action, d) ==
  IF ~f.exists
    THEN [df |-> d, exc |-> RaiseFrom("ExcelReadError", "FileNotFoundError"),
          tried |-> <<>>]
  ELSE IF f.corrupt
    THEN [df |-> d, exc |-> RaiseFrom("ExcelReadError", "BadZipFile"), tried |-> <<>>]
    ELSE LET t == LoadTable("xlsx", f)
             is_duplicate == \E j \in DOMAIN t.columns :
                               MatchesSuffixPattern(t.columns[j].name)
         IN IF action = "check" /\ is_duplicate
              THEN [df |-> t, exc |-> Raise("DuplicateColumnError"), tried |-> <<>>]
              ELSE [df |-> IF action = "keep_first" THEN DropSuffixed(t) ELSE t,
                    exc |-> NoException, tried |-> <<>>]

\* lines 64-72
ReadFile(f, action, d) ==
  IF f.ext = "csv" THEN ReadCsv(f, action, d)
  ELSE IF f.ext \in {"xlsx", "xls"} THEN ReadExcel(f, action, d)
  ELSE [df |-> d, exc |-> Raise("UnsupportedFormat"), tried |-> <<>>]

\* ------------------------------------------------------ post-load inspector
\* the types of the non-missing values of a column: dropna().apply(type).unique()
ValueKinds(c) == {c.cells[i] : i \in DOMAIN c.cells} \ {"nan"}

IsMixed(c) == c.dtype = "object" /\ Cardinality(ValueKinds(c)) > 1

\* f"Column '{col}' has mixed datatypes (e.g., Number and String)."
MixedWarning(name) == [column |-> name]

\* lines 140-149: the warnings the scan of table d appends to list w
RECURSIVE ScanColumns(_, _, _)
ScanColumns(d, j, w) ==
  IF j > Len(d.columns)
    THEN w
    ELSE ScanColumns(d, j + 1,
                     IF IsMixed(d.columns[j])
                       THEN Append(w, MixedWarning(d.columns[j].name))
                       ELSE w)

CheckMixedDatatypes(d, w) == IF d.isNone THEN w ELSE ScanColumns(d, 1, w)

\* lines 151-155: the exception _finalize raises, or none
Finalize(d) ==
  IF ~d.isNone /\ d.rows = 0 THEN Raise("NoRows") ELSE NoException

\* ---------------------------------------------------------------- pre-flight
\* the size test with >= in place of >
BasicValidationOffByOne(f, max_size_mb) ==
  IF ~f.exists THEN Raise("NotFound")
  ELSE IF f.size = 0 THEN Raise("EmptyFile")
  ELSE IF f.size >= max_size_mb * 1024 * 1024 THEN Raise("TooLarge")
  ELSE NoException

\* lines 53-62
BasicValidation(f, max_size_mb) ==
  IF ~f.exists THEN Raise("NotFound")
  ELSE IF f.size = 0 THEN Raise("EmptyFile")
  ELSE IF f.size > max_size_mb * 1024 * 1024 THEN Raise("TooLarge")
  ELSE NoException

\* ------------------------------------------------------------------ metadata
Units == <<"B", "KB", "MB", "GB">>

\* size after k passes of line 162 (size /= 1024), rounded down.  The division
\* is by a power of two, so the float is the exact quotient and "size < 1024"
\* on it is "Shift(size, k) < 1024".
RECURSIVE Shift(_, _)
Shift(size, k) == IF k = 0 THEN size ELSE Shift(size, k - 1) \div 1024

\* 100 * (size % 1024^j) / 1024^j, exactly: int + (rem + s) / 1024 with
\* 0 <= s < 1, and sticky iff s > 0
RECURSIVE ScaledFraction(_, _)
ScaledFraction(size, j) ==
  IF j = 0
    THEN [int |-> 0, rem |-> 0, sticky |-> FALSE]
    ELSE LET lower == ScaledFraction(size, j - 1)
             t == 100 * (Shift(size, j - 1) % 1024) + lower.int
         IN [int |-> t \div 1024, rem |-> t % 1024,
             sticky |-> lower.rem > 0 \/ lower.sticky]

\* f"{size:.2f}" of size / 1024^k, in hundredths: the exact quotient rounded
\* to two decimals, a tie going to the even digit
Hundredths(size, k) ==
  LET fr == ScaledFraction(size, k)
      h == 100 * Shift(size, k) + fr.int
      above == fr.rem > 512 \/ (fr.rem = 512 /\ fr.sticky)
      tie == fr.rem = 512 /\ ~fr.sticky
  IN IF above \/ (tie /\ h % 2 = 1) THEN h + 1 ELSE h

\* lines 159-163: the first unit under which the value is below 1024, TB
\* after the four units of the loop
RECURSIVE ReadableFrom(_, _)
ReadableFrom(size, k) ==
  IF k >= Len(Units)
    THEN [hundredths |-> Hundredths(size, k), unit |-> "TB"]
    ELSE IF Shift(size, k) < 1024
           THEN [hundredths |-> Hundredths(size, k), unit |-> Units[k + 1]]
           ELSE ReadableFrom(size, k + 1)

GetReadableSize(f) == ReadableFrom(f.size, 0)

\* A path is a directory, a stem and an extension; the file at a path has the
\* path's extension.
Path(dir, stem, ext) == [dir |-> dir, stem |-> stem, ext |-> ext]

\* os.path.basename(self.file_path)
BaseName(path) == [stem |-> path.stem, ext |-> path.ext]

\* lines 44-51, without the "warnings" entry, which is the list self.warnings
\* itself and not a copy of it
Metadata(path, f, d) ==
  [file_name |-> BaseName(path),
   size_readable |-> GetReadableSize(f),
   rows |-> d.rows,
   columns |-> Len(d.columns),
   column_names |-> ColumnNames(d)]

\* -------------------------------------------------------- validate_and_load
Outcome(d, w, exc, tried, read) ==
  [df |-> d, warnings |-> w, exc |-> exc, tried |-> tried, contentRead |-> read]

\* extensions whose reader opens the file
Readable(f) == f.ext \in {"csv", "xlsx", "xls"}

\* lines 18-51 on a loader whose table is d and whose warning list is w
ValidateAndLoadOn(f, max_size_mb, action, d, w) ==
  LET w0 == CheckMixedDatatypes(d, w)
      e0 == Finalize(d)
      e1 == BasicValidation(f, max_size_mb)
      r  == ReadFile(f, action, d)
      w1 == CheckMixedDatatypes(r.df, w0)
      e2 == Finalize(r.df)
  IN IF e0 # NoException THEN Outcome(d, w0, e0, <<>>, FALSE)
     ELSE IF e1 # NoException THEN Outcome(d, w0, e1, <<>>, FALSE)
     ELSE IF r.exc # NoException THEN Outcome(r.df, w0, r.exc, r.tried, Readable(f))
     ELSE IF e2 # NoException THEN Outcome(r.df, w1, e2, r.tried, TRUE)
     ELSE Outcome(r.df, w1, NoException, r.tried, TRUE)

\* a call on a loader just constructed: df None, no warnings
ValidateFresh(f, max_size_mb, action) ==
  ValidateAndLoadOn(f, max_size_mb, action, NoDf, <<>>)

\* ------------------------------------------------------------------- state
VARIABLES
  file_path,     \* self.file_path
  file,          \* what is at self.file_path
  max_size_mb,   \* self.max_size_mb
  df,            \* self.df
  warnings,      \* self.warnings, one list object for the loader's life
  result,        \* the last call: its policy and how it ended
  returned,      \* the metadata records returned so far
  tried,         \* the encodings the last call attempted, in order
  contentRead,   \* whether the last call opened the file's content
  budget,        \* calls the caller still makes on this loader
  uploads,       \* main.py: the upload directory, file name -> file
  req            \* main.py: the upload requests

loaderVars == <<file_path, file, max_size_mb, df, warnings, result, returned, tried,
                contentRead, budget>>

uploadVars == <<uploads, req>>

vars == <<file_path, file, max_size_mb, df, warnings, result, returned, tried,
          contentRead, budget, uploads, req>>

NoResult == [action |-> "none", exc |-> NoException, calls |-> 0]

\* the i-th record returned, as its holder reads it now: its "warnings" entry
\* is the loader's list
ReturnedRecord(i) ==
  [file_name |-> returned[i].file_name,
   size_readable |-> returned[i].size_readable,
   rows |-> returned[i].rows,
   columns |-> returned[i].columns,
   column_names |-> returned[i].column_names,
   warnings |-> warnings]

\* DataLoader.validate_and_load(action)
ValidateAndLoad(action) ==
  /\ budget > 0
  /\ LET o == ValidateAndLoadOn(file, max_size_mb, action, df, warnings)
     IN /\ df' = o.df
        /\ warnings' = o.warnings
        /\ tried' = o.tried
        /\ contentRead' = o.contentRead
        /\ result' = [action |-> action, exc |-> o.exc, calls |-> result.calls + 1]
        /\ returned' = IF o.exc = NoException
                         THEN Append(returned, Metadata(file_path, file, o.df))
                         ELSE returned
  /\ budget' = budget - 1
  /\ UNCHANGED <<file_path, file, max_size_mb, uploads, req>>

\* DataLoader._check_mixed_datatypes(), called by the holder of the loader
ScanMixed ==
  /\ budget > 0
  /\ warnings' = CheckMixedDatatypes(df, warnings)
  /\ budget' = budget - 1
  /\ UNCHANGED <<file_path, file, max_size_mb, df, result, returned, tried, contentRead,
                 uploads, req>>

\* ---------------------------------------------------------- upload endpoint
NumRequests == 2

Requests == 1..NumRequests

UPLOAD_DIR == "uploads"

UploadStems == {"x", "y"}

\* the streams clients upload: small CSV tables, and one workbook
UploadFiles ==
  {MkFile(TRUE, TableSize, "csv", "ascii", 0, h, r, FALSE, FALSE) :
     h \in {<<Name("a")>>, <<Name("a"), Name("a")>>, <<Name("a"), Name("b")>>},
     r \in {<<>>, <<"mix">>}}
  \cup {MkFile(TRUE, TableSize, "xlsx", "ascii", 0, <<Name("a")>>, <<"mix">>,
                FALSE, FALSE)}

UploadPaths == {Path(UPLOAD_DIR, s, e) : s \in UploadStems, e \in {"csv", "xlsx"}}

\* file_path = os.path.join(UPLOAD_DIR, file.filename)
UploadPath(q) == Path(UPLOAD_DIR, q.stem, q.content.ext)

\* no file at path; the extension is the path's
MissingAt(path) == [MissingFile EXCEPT !.ext = path.ext]

NoResponse == [code |-> 0, detail |-> NoException, data |-> <<>>]

\* lines 35-38: the 200 response that carries the record
SuccessResponse(path, f, d, w) ==
  [code |-> 200, detail |-> NoException,
   data |-> <<[meta |-> Metadata(path, f, d), warnings |-> w]>>]

\* lines 40-45: DuplicateColumnError and ValueError are answered with 400;
\* FileNotFoundError, raised by the loader or by the operating system, is
\* neither and is answered with 500
ErrorResponse(exc) ==
  IF exc.kind \in {"NotFound", "FileNotFoundError"}
    THEN [code |-> 500, detail |-> exc, data |-> <<>>]
    ELSE [code |-> 400, detail |-> exc, data |-> <<>>]

\* lines 30-45: the response to a validate_and_load outcome o on the file f at
\* path
Respond(path, f, o) ==
  IF o.exc = NoException THEN SuccessResponse(path, f, o.df, o.warnings)
  ELSE ErrorResponse(o.exc)

\* lines 32-33 on a path whose file nobody else touches:
\* loader = DataLoader(file_path); loader.validate_and_load(action)
HandleUpload(path, f, action) ==
  Respond(path, f, ValidateFresh(f, DefaultMaxSizeMb, action))

\* The handler is a coroutine that never awaits, so the event loop runs one
\* handler at a time, from the save to the response.  remove_file is a plain
\* function: the background task runs it on a worker thread, which can run
\* between any two file accesses of the handler.  The handler's positions are
\* its file accesses.
HandlerPositions == {"saved", "getsize", "open", "read_csv", "read_other", "metadata"}

InHandler(q) == q.pc \in HandlerPositions

\* the handler of request r raises exc
Fail(r, exc) ==
  req' = [req EXCEPT ![r].pc = "responded", ![r].response = ErrorResponse(exc),
                     ![r].enc = 0, ![r].df = NoDf, ![r].warnings = <<>>]

\* main.py lines 23-28: the uploaded stream is written to its path
SaveUpload(r) ==
  /\ req[r].pc = "start"
  /\ \A o \in Requests : ~InHandler(req[o])
  /\ uploads' = [uploads EXCEPT ![UploadPath(req[r])] = req[r].content]
  /\ req' = [req EXCEPT ![r].pc = "saved"]
  /\ UNCHANGED loaderVars

\* data_loader.py lines 54-55: os.path.exists on a loader just constructed
UploadExists(r) ==
  /\ req[r].pc = "saved"
  /\ IF ~uploads[UploadPath(req[r])].exists
       THEN Fail(r, Raise("NotFound"))
       ELSE req' = [req EXCEPT ![r].pc = "getsize"]
  /\ UNCHANGED uploads
  /\ UNCHANGED loaderVars

\* lines 57-62 and 65-72: os.path.getsize, which raises on a path that is
\* gone, the two size tests, and the choice of the reader
UploadGetSize(r) ==
  /\ req[r].pc = "getsize"
  /\ LET f == uploads[UploadPath(req[r])]
         e == BasicValidation(f, DefaultMaxSizeMb)
     IN IF ~f.exists THEN Fail(r, Raise("FileNotFoundError"))
        ELSE IF e # NoException THEN Fail(r, e)
        ELSE req' = [req EXCEPT
                       ![r].pc = IF UploadPath(req[r]).ext # "csv" THEN "read_other"
                                 ELSE IF req[r].action = "check" THEN "open"
                                 ELSE "read_csv",
                       ![r].enc = 1]
  /\ UNCHANGED uploads
  /\ UNCHANGED loaderVars

\* lines 105-116: the loop after a pass of request r that ended with e
UploadAfterPass(r, e) ==
  LET enc == encodings[req[r].enc]
      next == AfterPass(enc, e)
  IN IF next = "continue"
       THEN IF req[r].enc < Len(encodings)
              THEN req' = [req EXCEPT
                             ![r].enc = @ + 1,
                             ![r].pc = IF req[r].action = "check" THEN "open"
                                       ELSE "read_csv"]
              ELSE Fail(r, Raise("EncodingError"))
       ELSE Fail(r, PassException(e))

\* lines 82-93: open() under the current encoding and the raw header check
UploadOpenHeader(r) ==
  /\ req[r].pc = "open"
  /\ LET e == HeaderCheck(uploads[UploadPath(req[r])], encodings[req[r].enc])
     IN IF e = "none"
          THEN req' = [req EXCEPT ![r].pc = "read_csv"]
          ELSE UploadAfterPass(r, e)
  /\ UNCHANGED uploads
  /\ UNCHANGED loaderVars

\* the rest of validate_and_load once the reader has left table d: lines 39-42
UploadLoaded(r, d) ==
  LET w == CheckMixedDatatypes(d, <<>>)
      e == Finalize(d)
  IN IF e # NoException THEN Fail(r, e)
     ELSE req' = [req EXCEPT ![r].pc = "metadata", ![r].enc = 0,
                             ![r].df = d, ![r].warnings = w]

\* lines 97-105: pd.read_csv under the current encoding
UploadReadCsv(r) ==
  /\ req[r].pc = "read_csv"
  /\ LET f == uploads[UploadPath(req[r])]
         e == PandasReadCsv(f, encodings[req[r].enc])
     IN IF e = "none"
          THEN UploadLoaded(r, CsvTable(f, req[r].action))
          ELSE UploadAfterPass(r, e)
  /\ UNCHANGED uploads
  /\ UNCHANGED loaderVars

\* lines 69-72: pd.read_excel, or the refusal of the extension
UploadReadOther(r) ==
  /\ req[r].pc = "read_other"
  /\ LET o == ReadFile(uploads[UploadPath(req[r])], req[r].action, NoDf)
     IN IF o.exc # NoException THEN Fail(r, o.exc) ELSE UploadLoaded(r, o.df)
  /\ UNCHANGED uploads
  /\ UNCHANGED loaderVars

\* lines 44-51 and main.py lines 35-38: os.path.getsize of line 158, which
\* raises on a path that is gone, and the response
UploadMetadata(r) ==
  /\ req[r].pc = "metadata"
  /\ LET f == uploads[UploadPath(req[r])]
     IN IF ~f.exists
          THEN Fail(r, Raise("FileNotFoundError"))
          ELSE req' = [req EXCEPT
                         ![r].pc = "responded",
                         ![r].response = SuccessResponse(UploadPath(req[r]), f,
                                                         req[r].df, req[r].warnings),
                         ![r].enc = 0, ![r].df = NoDf, ![r].warnings = <<>>]
  /\ UNCHANGED uploads
  /\ UNCHANGED loaderVars

\* main.py line 13: remove_file, the background task of a returned response,
\* tests the path on a worker thread after the response is sent
RemoveFileExists(r) ==
  /\ req[r].pc = "responded"
  /\ req[r].response.code = 200
  /\ req' = [req EXCEPT ![r].pc = IF uploads[UploadPath(req[r])].exists
                                    THEN "removing" ELSE "done"]
  /\ UNCHANGED uploads
  /\ UNCHANGED loaderVars

\* main.py line 14: os.remove, which raises in the task when another task
\* removed the path since line 13
RemoveFile(r) ==
  /\ req[r].pc = "removing"
  /\ uploads' = [uploads EXCEPT ![UploadPath(req[r])] = MissingAt(UploadPath(req[r]))]
  /\ req' = [req EXCEPT ![r].pc = "done",
                        ![r].taskError = ~uploads[UploadPath(req[r])].exists]
  /\ UNCHANGED loaderVars

\* ------------------------------------------------------------ specifications
LoaderPath(f) == Path(".", "data", f.ext)

NoUploads == [p \in UploadPaths |-> MissingAt(p)]

\* files whose outcome the size limit decides
PreflightFiles == {f \in Files : f.size \notin {TableSize, LateSize}}

\* DataLoader(file_path, max_size_mb): every file under the default limit, and
\* the files of the boundary sizes under each limit
InitLoader(files, calls) ==
  /\ file \in files
  /\ file_path = LoaderPath(file)
  /\ max_size_mb \in IF file \in PreflightFiles THEN Limits ELSE {DefaultMaxSizeMb}
  /\ df = NoDf
  /\ warnings = <<>>
  /\ result = NoResult
  /\ returned = <<>>
  /\ tried = <<>>
  /\ contentRead = FALSE
  /\ budget = calls
  /\ uploads = NoUploads
  /\ req = <<>>

\* one call on a loader just constructed, over every modelled file
Init == InitLoader(Files, 1)

\* the files a loader is called on repeatedly
ReuseFiles ==
  {f \in Files : /\ Len(f.header) <= 2
                 /\ Range(f.header) \subseteq {Name("a"), Name("b")}
                 /\ f.bytes = "ascii" /\ f.blank = 0 /\ ~f.ragged}

InitReuse == InitLoader(ReuseFiles, MaxCalls)

InitUpload ==
  /\ file = MissingFile
  /\ file_path = LoaderPath(file)
  /\ max_size_mb = DefaultMaxSizeMb
  /\ df = NoDf
  /\ warnings = <<>>
  /\ result = NoResult
  /\ returned = <<>>
  /\ tried = <<>>
  /\ contentRead = FALSE
  /\ budget = 0
  /\ uploads = NoUploads
  /\ req \in [Requests -> [pc : {"start"}, stem : UploadStems,
                           content : UploadFiles, action : Policies,
                           enc : {0}, df : {NoDf}, warnings : {<<>>},
                           response : {NoResponse}, taskError : {FALSE}]]

Next ==
  \/ \E action \in Policies : ValidateAndLoad(action)
  \/ ScanMixed

NextUpload ==
  \/ \E r \in Requests : SaveUpload(r)
  \/ \E r \in Requests : UploadExists(r)
  \/ \E r \in Requests : UploadGetSize(r)
  \/ \E r \in Requests : UploadOpenHeader(r)
  \/ \E r \in Requests : UploadReadCsv(r)
  \/ \E r \in Requests : UploadReadOther(r)
  \/ \E r \in Requests : UploadMetadata(r)
  \/ \E r \in Requests : RemoveFileExists(r)
  \/ \E r \in Requests : RemoveFile(r)

Spec == Init /\ [][Next]_vars

SpecReuse == InitReuse /\ [][Next]_vars

SpecUpload == InitUpload /\ [][NextUpload]_vars

\* ------------------------------------------------------------------- claims
FirstCall == result.calls = 1

Succeeded == result.calls >= 1 /\ result.exc = NoException

PreflightKinds == {"NotFound", "EmptyFile", "TooLarge"}

\* the three pre-flight conditions, stated on the file itself
PassesPreflight ==
  file.exists /\ file.size > 0 /\ file.size <= max_size_mb * MiB

\* C5: on a fresh loader the call fails with NotFound when the path does not
\* exist, else with EmptyFile when the size is 0 (also under a limit of 0),
\* else with TooLarge when the size exceeds max_size_mb * 1024 * 1024, each
\* before any content is read and without a record; a file that meets all
\* three conditions, one of exactly the limit included, fails with none of
\* the three kinds.
C5_PreflightOrder ==
  FirstCall =>
    /\ ~file.exists => result.exc.kind = "NotFound"
    /\ file.exists /\ file.size = 0 => result.exc.kind = "EmptyFile"
    /\ file.exists /\ file.size > 0 /\ file.size > max_size_mb * MiB
         => result.exc.kind = "TooLarge"
    /\ result.exc.kind \in PreflightKinds => ~contentRead /\ returned = <<>>
    /\ PassesPreflight => result.exc.kind \notin PreflightKinds

\* a file of exactly the limit was accepted and its content read
C5_Witness ==
  /\ FirstCall
  /\ file.size = max_size_mb * MiB
  /\ file.size > 0
  /\ result.exc.kind \notin PreflightKinds
  /\ contentRead

\* the positions at which name n stands in header h
Occurrences(h, n) == {j \in DOMAIN h : h[j] = n}

RepeatedNames(h) == {n \in Range(h) : Cardinality(Occurrences(h, n)) > 1}

Min(S) == CHOOSE x \in S : \A y \in S : x <= y

\* names[j] is n followed by one positional suffix ".N"
CarriesSuffixOf(name, n, h) == \E k \in 1..Len(h) : name = Suffixed(n, k)

\* in the group of repeated name n the first occurrence keeps n, no other
\* column of the group does, and every other one is n with a suffix
GroupRenamed(h, names, n) ==
  LET occ == Occurrences(h, n)
  IN /\ names[Min(occ)] = n
     /\ \A j \in occ \ {Min(occ)} : names[j] # n /\ CarriesSuffixOf(names[j], n, h)

RenameShape(h, names) ==
  /\ Len(names) = Len(h)
  /\ ~HasDuplicates(names)

RenamedSuccessfully == Succeeded /\ result.action = "rename"

\* C4 as claimed: under 'rename' a successful call keeps every column, gives
\* pairwise distinct names, and in every group of repeated names keeps the
\* first occurrence unsuffixed and suffixes each other occurrence with ".N".
C4_RenameEveryGroup ==
  RenamedSuccessfully =>
    /\ RenameShape(file.header, ColumnNames(df))
    /\ \A n \in RepeatedNames(file.header) :
         GroupRenamed(file.header, ColumnNames(df), n)

\* C4 as amended: the same, for the groups of repeated names that are not
\* empty.
C4_RenameNamedGroups ==
  RenamedSuccessfully =>
    /\ RenameShape(file.header, ColumnNames(df))
    /\ \A n \in RepeatedNames(file.header) \ {EmptyName} :
         GroupRenamed(file.header, ColumnNames(df), n)

\* a header that repeats "a" and also holds "a.1" was renamed
C4_Witness ==
  /\ RenamedSuccessfully
  /\ Name("a") \in RepeatedNames(file.header)
  /\ Suffixed(Name("a"), 1) \in Range(file.header)

TableFile == file.ext \in {"csv", "xlsx"}

NamedHeader == EmptyName \notin Range(file.header)

\* C1: under 'check' a CSV or spreadsheet file that passes pre-flight and
\* whose raw header repeats a name fails with DuplicateColumnError and
\* returns no record.  Stated for the headers whose names are not empty.
C1_CheckRejectsDuplicates ==
  /\ FirstCall /\ result.action = "check"
  /\ PassesPreflight /\ TableFile /\ ~file.corrupt
  /\ NamedHeader /\ HasDuplicates(file.header)
  => result.exc.kind = "DuplicateColumnError" /\ returned = <<>>

\* the cells of column j of the source
SourceCells(f, j) == {CellOf(f.rows[i], j) : i \in DOMAIN f.rows}

\* a column of the source that holds both a number and a text
SourceMixed(f) == \E j \in DOMAIN f.header : {"int", "str"} \subseteq SourceCells(f, j)

\* C2: under every policy a well-formed CSV or spreadsheet file that passes
\* pre-flight, has pairwise distinct header names (names ending in ".<digits>"
\* included) and at least one data row yields a record whose row and column
\* counts are the source's, with no warnings when no column mixes types.
\* Stated for the headers whose names are not empty.
C2_UniqueHeadersLoad ==
  /\ FirstCall /\ PassesPreflight /\ TableFile
  /\ ~file.corrupt /\ ~file.ragged
  /\ NamedHeader /\ ~HasDuplicates(file.header) /\ Len(file.rows) >= 1
  => /\ result.exc = NoException
     /\ Len(returned) = 1
     /\ returned[1].rows = Len(file.rows)
     /\ returned[1].columns = Len(file.header)
     /\ ~SourceMixed(file) => warnings = <<>>

\* the names of h without their later repetitions, in source order
RECURSIVE FirstOccurrences(_, _)
FirstOccurrences(h, seen) ==
  IF h = <<>> THEN <<>>
  ELSE IF Head(h) \in seen THEN FirstOccurrences(Tail(h), seen)
  ELSE <<Head(h)>> \o FirstOccurrences(Tail(h), seen \cup {Head(h)})

\* C3: under 'keep_first' a successful call leaves as many columns as the raw
\* header has distinct names, named by the first occurrences in source order,
\* none of them matching the auto-suffix pattern.  Stated for the headers
\* whose names are not empty.
C3_KeepFirstDistinct ==
  FirstCall /\ result.action = "keep_first" /\ Succeeded /\ NamedHeader
  => /\ Len(df.columns) = Cardinality(Range(file.header))
     /\ ColumnNames(df) = FirstOccurrences(file.header, {})
     /\ \A j \in DOMAIN df.columns : ~MatchesSuffixPattern(df.columns[j].name)

\* C9: a CSV file of non-zero size with no header line fails with EmptyHeader
\* under each policy, at the first encoding, and returns no record.
C9_EmptyHeaderRaised ==
  /\ FirstCall /\ PassesPreflight
  /\ file.ext = "csv" /\ Len(file.header) = 0
  => /\ result.exc.kind = "EmptyHeader"
     /\ Len(tried) = 1
     /\ returned = <<>>

IsPrefix(s, t) == Len(s) <= Len(t) /\ \A i \in DOMAIN s : s[i] = t[i]

\* C10: the CSV reader tries utf-8, latin1, cp1252, utf-16 in this order, each
\* at most once; no encoding is tried after one that decoded the file; and the
\* call fails with EncodingError exactly when none of the four decodes it.
C10_StopsAtFirstDecoder ==
  FirstCall /\ PassesPreflight /\ file.ext = "csv"
  => /\ Len(tried) >= 1 /\ IsPrefix(tried, encodings)
     /\ \A i \in 1..(Len(tried) - 1) : Decode(file, tried[i]) # "ok"
     /\ result.exc.kind = "EncodingError"
          <=> \A i \in DOMAIN encodings : Decode(file, encodings[i]) # "ok"

\* C6: the warnings of a successful call, whatever the loader did before, are
\* one warning for each column of the loaded table that is text-typed with
\* more than one value kind, and nothing else.
C6_WarningsOfThisCall ==
  Succeeded =>
    /\ \A j \in DOMAIN df.columns :
         Cardinality({k \in DOMAIN warnings :
                        warnings[k] = MixedWarning(df.columns[j].name)})
           = IF IsMixed(df.columns[j]) THEN 1 ELSE 0
    /\ \A k \in DOMAIN warnings :
         \E j \in DOMAIN df.columns : warnings[k] = MixedWarning(df.columns[j].name)

\* C7: no step changes a record that was already returned.
C7_ReturnedRecordsFrozen ==
  [][\A i \in DOMAIN returned : ReturnedRecord(i)' = ReturnedRecord(i)]_vars

\* C8: the response of every upload request is the one validate_and_load
\* gives on the request's own uploaded content and policy.
C8_UploadsIndependent ==
  \A r \in DOMAIN req :
    req[r].pc \in {"responded", "removing", "done"} =>
      req[r].response = HandleUpload(UploadPath(req[r]), req[r].content, req[r].action)

====
